---- MODULE Spec2Model ----
(***************************************************************************)
(* Sentiment-analysis service: one pretrained classification pipeline      *)
(* behind two front-ends, an HTTP endpoint (api.py, POST /analyze) and an  *)
(* interactive form (feedback-classifier-gradio/app.py).  A behaviour is   *)
(* the life of ONE process: Init picks which front-end the process is.     *)
(*                                                                         *)
(* Strings are sequences of one-character strings, so that trimming, case  *)
(* conversion and number formatting are computed, not assumed.  A score is *)
(* held as an integer number of millionths (0 .. ScoreDen).                *)
(***************************************************************************)
EXTENDS Integers, Sequences, FiniteSets, TLC

\* ---------------------------------------------------------------- bounds
MaxReq == 3          \* requests one process receives in a behaviour

\* ------------------------------------------------------------- constants
ScoreDen == 1000000  \* a score s in [0,1] is held as s * ScoreDen

POSITIVE == <<"P", "O", "S", "I", "T", "I", "V", "E">>
NEGATIVE == <<"N", "E", "G", "A", "T", "I", "V", "E">>
Labels == {POSITIVE, NEGATIVE}

\* scores the pipeline produces in the request model (millionths)
Scores == {987600, 999951}

\* ----------------------------------------------------------------- text
\* the texts clients submit: the empty string, a word, and a word with
\* leading and trailing blanks
Texts == {<<>>, <<"a">>, <<" ", "a", " ">>}

UpperCase == <<"A", "B", "C", "D", "E", "F", "G", "H", "I", "J", "K", "L", "M",
               "N", "O", "P", "Q", "R", "S", "T", "U", "V", "W", "X", "Y", "Z">>
LowerCase == <<"a", "b", "c", "d", "e", "f", "g", "h", "i", "j", "k", "l", "m",
               "n", "o", "p", "q", "r", "s", "t", "u", "v", "w", "x", "y", "z">>
Digits == <<"0", "1", "2", "3", "4", "5", "6", "7", "8", "9">>

IndexIn(s, c) == CHOOSE i \in 1..Len(s) : s[i] = c
Occurs(s, c) == \E i \in 1..Len(s) : s[i] = c

\* str.upper / str.lower on one character
ToUpper(c) == IF Occurs(LowerCase, c) THEN UpperCase[IndexIn(LowerCase, c)] ELSE c
ToLower(c) == IF Occurs(UpperCase, c) THEN LowerCase[IndexIn(UpperCase, c)] ELSE c

\* str.capitalize(): first character upper-cased, every other one lower-cased
Capitalize(s) ==
  [i \in 1..Len(s) |-> IF i = 1 THEN ToUpper(s[i]) ELSE ToLower(s[i])]

\* str.strip(): used only by a mutant of the response builder
RECURSIVE LStrip(_)
LStrip(s) == IF s # <<>> /\ Head(s) = " " THEN LStrip(Tail(s)) ELSE s
RECURSIVE RStrip(_)
RStrip(s) ==
  IF s # <<>> /\ s[Len(s)] = " " THEN RStrip(SubSeq(s, 1, Len(s) - 1)) ELSE s
Strip(s) == RStrip(LStrip(s))

\* ------------------------------------------------- number formatting
\* format(score, ".4f"): the value rounded to the nearest multiple of 1e-4,
\* an exact tie going to the even neighbour, written as the integer part, a
\* point and exactly four fraction digits.  `s` is in millionths.
RoundTo4(s) ==
  LET q == s \div 100
      r == s % 100
  IN  IF r > 50 \/ (r = 50 /\ q % 2 = 1) THEN q + 1 ELSE q

DigitChar(d) == Digits[d + 1]

RECURSIVE IntDigits(_)
IntDigits(n) ==
  IF n < 10 THEN <<DigitChar(n)>>
  ELSE IntDigits(n \div 10) \o <<DigitChar(n % 10)>>

Format4(s) ==
  LET u == RoundTo4(s)
      f == u % 10000
  IN  IntDigits(u \div 10000) \o <<".">> \o
      <<DigitChar(f \div 1000), DigitChar((f \div 100) % 10),
        DigitChar((f \div 10) % 10), DigitChar(f % 10)>>

\* format(score, ".2f"): a mutant of the confidence rendering
Format2(s) ==
  LET q == s \div 10000
      r == s % 10000
      u == IF r > 5000 \/ (r = 5000 /\ q % 2 = 1) THEN q + 1 ELSE q
      f == u % 100
  IN  IntDigits(u \div 100) \o <<".">> \o <<DigitChar(f \div 10), DigitChar(f % 10)>>

SentimentPrefix == <<"S", "e", "n", "t", "i", "m", "e", "n", "t", ":", " ">>
ConfidencePrefix == <<"C", "o", "n", "f", "i", "d", "e", "n", "c", "e", ":", " ">>
Newline == <<"\n">>

\* a result dict of the pipeline: {'label': ..., 'score': ...}
ResultDict == [label : Labels, score : Scores]

\* app.py lines 12-14, with the confidence written by a mutated format
FormatResultTwoPlaces(res) ==
  SentimentPrefix \o Capitalize(res.label) \o Newline \o
  ConfidencePrefix \o Format2(res.score)

\* app.py lines 12-14: the two-line string the form shows
FormatResult(res) ==
  SentimentPrefix \o Capitalize(res.label) \o Newline \o
  ConfidencePrefix \o Format4(res.score)

\* ------------------------------------------------------------ requests
\* What a client sends.  The HTTP front-end receives any byte string as a
\* body: unparseable JSON, a JSON object without "text", or {"text": t}.
\* The form always submits the content of its one text box.
NoBody == [kind |-> "none", hasText |-> FALSE, text |-> <<>>]
MalformedBody == [kind |-> "malformed", hasText |-> FALSE, text |-> <<>>]
MissingBody == [kind |-> "json", hasText |-> FALSE, text |-> <<>>]
TextBody(t) == [kind |-> "json", hasText |-> TRUE, text |-> t]

Bodies(fe) ==
  {TextBody(t) : t \in Texts} \cup
  (IF fe = "api" THEN {MalformedBody, MissingBody} ELSE {})

Requests == 1..MaxReq

\* ------------------------------------------------------------ responses
NoResponse ==
  [status |-> "none", feedback |-> <<>>, sentiment |-> <<>>, score |-> -1,
   output |-> <<>>]
\* request-validation error of the framework
Response422 == [NoResponse EXCEPT !.status = "422"]
\* an exception that left the handler: the framework's server-error answer
Response500 == [NoResponse EXCEPT !.status = "500"]
\* an exception that left the form's function: the form shows an error
FormError == [NoResponse EXCEPT !.status = "error"]

\* ------------------------------------------------------------- pipeline
\* classifier(text) returns a list holding one result dict, or raises.
Unknown == [kind |-> "unknown", out |-> <<>>]
Raised == [kind |-> "raise", out |-> <<>>]
OkOutcomes == {[kind |-> "ok", out |-> <<d>>] : d \in ResultDict}

VARIABLES
  frontend,    \* "api" or "form": which program this process runs
  phase,       \* "loading" (module body running), "serving", "failed"
  classifier,  \* the module-level name: 0 unbound, else the instance's id
  loads,       \* how many times pipeline(...) has been called
  modelFn,     \* what the loaded instance computes, as far as it was observed
  nextId,      \* id the next arriving request gets
  body,        \* body[r]: what request r carries
  pc,          \* pc[r]: "none", "sent", "infer" (inside classifier(...)), "done"
  calls,       \* calls[r]: classifier(...) calls made by r's handler
  usedModel,   \* usedModel[r]: the instance r's call went to
  raced,       \* raced[r]: another call overlapped r's call
  result,      \* result[r]: what r's call returned or raised (Unknown before)
  response,    \* response[r]: what the client got
  loopTask,    \* HTTP front-end: request whose coroutine holds the event loop
  fmtLabel, fmtScore, fmtOut   \* formatting harness (SpecFmt only)

vars == <<frontend, phase, classifier, loads, modelFn, nextId, body, pc, calls,
          usedModel, raced, result, response, loopTask, fmtLabel, fmtScore, fmtOut>>

fmtVars == <<fmtLabel, fmtScore, fmtOut>>
procVars == <<frontend, phase, classifier, loads, modelFn, nextId, body, pc,
              calls, usedModel, raced, result, response, loopTask>>

InFlight == {q \in Requests : pc[q] = "infer"}

ProcInit ==
  /\ frontend \in {"api", "form"}
  /\ phase = "loading"
  /\ classifier = 0
  /\ loads = 0
  /\ modelFn = [t \in Texts |-> Unknown]
  /\ nextId = 1
  /\ body = [r \in Requests |-> NoBody]
  /\ pc = [r \in Requests |-> "none"]
  /\ calls = [r \in Requests |-> 0]
  /\ usedModel = [r \in Requests |-> 0]
  /\ raced = [r \in Requests |-> FALSE]
  /\ result = [r \in Requests |-> Unknown]
  /\ response = [r \in Requests |-> NoResponse]
  /\ loopTask = 0

FmtIdle == fmtLabel = <<>> /\ fmtScore = 0 /\ fmtOut = <<>>

Init == ProcInit /\ FmtIdle

\* -------------------------------------------------------------- startup
\* The module body runs top to bottom when the process starts; the server
\* (uvicorn api:app / iface.launch()) takes requests only once it has run.

\* pipeline(...) returned: the name classifier is bound to a new instance.
LoadOk ==
  /\ phase = "loading"
  /\ loads' = loads + 1
  /\ classifier' = loads + 1
  /\ modelFn' = [t \in Texts |-> Unknown]
  /\ phase' = "serving"
  /\ UNCHANGED <<frontend, nextId, body, pc, calls, usedModel, raced, result,
                 response, loopTask, fmtVars>>

\* mutant of LoadFail: the exception is swallowed and the server starts
LoadFailSwallowed ==
  /\ phase = "loading"
  /\ loads' = loads + 1
  /\ phase' = "serving"
  /\ UNCHANGED <<frontend, classifier, modelFn, nextId, body, pc, calls,
                 usedModel, raced, result, response, loopTask, fmtVars>>

\* pipeline(...) raised (no weights, no network): nothing catches it, the
\* module body never completes and the process never serves.
LoadFail ==
  /\ phase = "loading"
  /\ loads' = loads + 1
  /\ phase' = "failed"
  /\ UNCHANGED <<frontend, classifier, modelFn, nextId, body, pc, calls,
                 usedModel, raced, result, response, loopTask, fmtVars>>

\* A client sends a request (at any time: the client does not know the
\* process's phase).
Arrive(b) ==
  /\ nextId <= MaxReq
  /\ b \in Bodies(frontend)
  /\ body' = [body EXCEPT ![nextId] = b]
  /\ pc' = [pc EXCEPT ![nextId] = "sent"]
  /\ nextId' = nextId + 1
  /\ UNCHANGED <<frontend, phase, classifier, loads, modelFn, calls, usedModel,
                 raced, result, response, loopTask, fmtVars>>

\* ------------------------------------------------------ inference call
\* mutant of HandlerInput: the handler reads a process-wide "latest
\* feedback" that every arriving request overwrites
HandlerInputLatest(r) == body[nextId - 1]

\* The handler's parameter: the request's own parsed body / form text.
HandlerInput(r) == body[r]

\* mutant of CallOutcomes: the model is left in training mode (dropout on),
\* so a call's result does not depend on the text alone
CallOutcomesTrainMode(r) ==
  IF usedModel[r] = 0 \/ ~HandlerInput(r).hasText THEN {Raised}
  ELSE OkOutcomes \cup {Raised}

\* What classifier(text) can do for request r.  The loaded instance is a
\* fixed function of the text (modelFn records it as it is observed); an
\* unbound name or a missing attribute raises; a call that overlapped
\* another call on the same instance may also raise.
CallOutcomes(r) ==
  IF usedModel[r] = 0 \/ ~HandlerInput(r).hasText THEN {Raised}
  ELSE (IF modelFn[HandlerInput(r).text] = Unknown
          THEN OkOutcomes \cup {Raised}
          ELSE {modelFn[HandlerInput(r).text]})
       \cup (IF raced[r] THEN {Raised} ELSE {})

\* whether the outcome tells what the instance computes for the text
Observations(r, o) ==
  IF usedModel[r] = 0 \/ ~HandlerInput(r).hasText THEN {FALSE}
  ELSE IF o = Raised /\ raced[r] THEN {TRUE, FALSE}
  ELSE {TRUE}

Observe(r, o, rec) ==
  modelFn' =
    IF rec /\ modelFn[HandlerInput(r).text] = Unknown
      THEN [modelFn EXCEPT ![HandlerInput(r).text] = o]
      ELSE modelFn

\* r's handler enters classifier(...)
StartCall(r) ==
  /\ pc' = [pc EXCEPT ![r] = "infer"]
  /\ calls' = [calls EXCEPT ![r] = calls[r] + 1]
  /\ usedModel' = [usedModel EXCEPT ![r] = classifier]
  /\ raced' = [q \in Requests |->
                 IF q = r THEN InFlight # {}
                 ELSE IF q \in InFlight THEN TRUE ELSE raced[q]]

\* ------------------------------------------------------- HTTP front-end
\* mutant of FeedbackValid: the field is optional
FeedbackValidLax(b) == b.kind = "json"

\* class Feedback(BaseModel): text: str -- the body must parse as JSON and
\* carry the field "text"
FeedbackValid(b) == b.kind = "json" /\ b.hasText

\* mutant of ApiResponse: the echoed text is trimmed
ApiResponseStripped(text, res) ==
  [status |-> "200", feedback |-> Strip(text), sentiment |-> res.label,
   score |-> res.score, output |-> <<>>]

\* mutant of ApiResponse: the label is capitalized as the form does
ApiResponseCapitalized(text, res) ==
  [status |-> "200", feedback |-> text, sentiment |-> Capitalize(res.label),
   score |-> res.score, output |-> <<>>]

\* api.py line 20: the returned dict
ApiResponse(text, res) ==
  [status |-> "200", feedback |-> text, sentiment |-> res.label,
   score |-> res.score, output |-> <<>>]

\* mutant of ApiHandlerResult: a failed call is answered with a default
\* classification
ApiHandlerFallback(fb, o) ==
  IF o.kind = "ok" THEN ApiResponse(fb.text, o.out[1])
  ELSE ApiResponse(fb.text, [label |-> NEGATIVE, score |-> 0])

\* api.py lines 19-20: result = classifier(feedback.text)[0]; return {...}.
\* No try/except: an exception leaves the handler.
ApiHandlerResult(fb, o) ==
  IF o.kind = "ok" THEN ApiResponse(fb.text, o.out[1]) ELSE Response500

\* The framework parses and validates the body before the handler is
\* called; an invalid body is answered with 422 and the handler never runs.
ApiReject(r) ==
  /\ frontend = "api" /\ phase = "serving"
  /\ pc[r] = "sent" /\ loopTask = 0
  /\ ~FeedbackValid(body[r])
  /\ response' = [response EXCEPT ![r] = Response422]
  /\ pc' = [pc EXCEPT ![r] = "done"]
  /\ UNCHANGED <<frontend, phase, classifier, loads, modelFn, nextId, body,
                 calls, usedModel, raced, result, loopTask, fmtVars>>

\* mutant of ApiCall: the handler is run in a worker thread (def instead of
\* async def), so the event loop is not held during the call
ApiCallThreadpool(r) ==
  /\ frontend = "api" /\ phase = "serving"
  /\ pc[r] = "sent" /\ loopTask = 0
  /\ FeedbackValid(body[r])
  /\ StartCall(r)
  /\ UNCHANGED <<frontend, phase, classifier, loads, modelFn, nextId, body,
                 result, response, loopTask, fmtVars>>

\* mutant of ApiCall: the handler builds the pipeline itself on each request
ApiCallLazyLoad(r) ==
  /\ frontend = "api" /\ phase = "serving"
  /\ pc[r] = "sent" /\ loopTask = 0
  /\ FeedbackValid(body[r])
  /\ loads' = loads + 1
  /\ classifier' = loads + 1
  /\ modelFn' = [t \in Texts |-> Unknown]
  /\ pc' = [pc EXCEPT ![r] = "infer"]
  /\ calls' = [calls EXCEPT ![r] = calls[r] + 1]
  /\ usedModel' = [usedModel EXCEPT ![r] = loads + 1]
  /\ loopTask' = r
  /\ UNCHANGED <<frontend, phase, nextId, body, raced, result, response, fmtVars>>

\* The event loop runs the coroutine analyze_feedback(feedback) and the
\* coroutine enters the blocking call classifier(feedback.text).  It holds
\* the loop: there is no await in the handler.
ApiCall(r) ==
  /\ frontend = "api" /\ phase = "serving"
  /\ pc[r] = "sent" /\ loopTask = 0
  /\ FeedbackValid(body[r])
  /\ StartCall(r)
  /\ loopTask' = r
  /\ UNCHANGED <<frontend, phase, classifier, loads, modelFn, nextId, body,
                 result, response, fmtVars>>

\* classifier(...) returns or raises; the handler returns its dict or the
\* exception leaves it; the coroutine ends and the loop is free again.
ApiReturn(r) ==
  /\ frontend = "api"
  /\ pc[r] = "infer"
  /\ \E o \in CallOutcomes(r) : \E rec \in Observations(r, o) :
       /\ Observe(r, o, rec)
       /\ result' = [result EXCEPT ![r] = o]
       /\ response' = [response EXCEPT ![r] = ApiHandlerResult(HandlerInput(r), o)]
  /\ pc' = [pc EXCEPT ![r] = "done"]
  /\ loopTask' = IF loopTask = r THEN 0 ELSE loopTask
  /\ UNCHANGED <<frontend, phase, classifier, loads, nextId, body, calls,
                 usedModel, raced, fmtVars>>

\* ------------------------------------------------------------ the form
\* app.py lines 11-14; an exception leaves the function and the form shows
\* an error instead of a result
FormHandlerResult(o) ==
  IF o.kind = "ok"
    THEN [NoResponse EXCEPT !.status = "shown", !.output = FormatResult(o.out[1])]
    ELSE FormError

\* A submit runs analyze_feedback(feedback) in a worker thread: calls of
\* different submits may overlap.
FormCall(r) ==
  /\ frontend = "form" /\ phase = "serving"
  /\ pc[r] = "sent"
  /\ StartCall(r)
  /\ UNCHANGED <<frontend, phase, classifier, loads, modelFn, nextId, body,
                 result, response, loopTask, fmtVars>>

FormReturn(r) ==
  /\ frontend = "form"
  /\ pc[r] = "infer"
  /\ \E o \in CallOutcomes(r) : \E rec \in Observations(r, o) :
       /\ Observe(r, o, rec)
       /\ result' = [result EXCEPT ![r] = o]
       /\ response' = [response EXCEPT ![r] = FormHandlerResult(o)]
  /\ pc' = [pc EXCEPT ![r] = "done"]
  /\ UNCHANGED <<frontend, phase, classifier, loads, nextId, body, calls,
                 usedModel, raced, loopTask, fmtVars>>

\* -------------------------------------------------------- specification
Next ==
  \/ LoadOk
  \/ LoadFail
  \/ \E b \in Bodies(frontend) : Arrive(b)
  \/ \E r \in Requests : ApiReject(r)
  \/ \E r \in Requests : ApiCall(r)
  \/ \E r \in Requests : ApiReturn(r)
  \/ \E r \in Requests : FormCall(r)
  \/ \E r \in Requests : FormReturn(r)

Spec == Init /\ [][Next]_vars

\* ------------------------------------------------- formatting harness
\* The form's formatting (app.py lines 12-14) applied to every result the
\* pipeline can produce: both labels, and scores over all of [0,1] (values
\* next to the rounding boundaries, the exact ties 1/32 and 3/32, 0 and 1).
FmtBases == {0, 1, 312, 937, 4999, 5000, 9875, 9876, 9998, 9999}
FmtOffsets == {0, 1, 49, 51, 99}
FmtScores ==
  {s \in {b * 100 + d : b \in FmtBases, d \in FmtOffsets} : s <= ScoreDen}
  \cup {31250, 93750, ScoreDen}

FmtInit ==
  /\ ProcInit
  /\ frontend = "form"
  /\ fmtLabel \in Labels
  /\ fmtScore \in FmtScores
  /\ fmtOut = <<>>

FmtApply ==
  /\ fmtOut = <<>>
  /\ fmtOut' = FormatResult([label |-> fmtLabel, score |-> fmtScore])
  /\ UNCHANGED <<procVars, fmtLabel, fmtScore>>

FmtNext == FmtApply

SpecFmt == FmtInit /\ [][FmtNext]_vars

\* ================================================================ claims
Succeeded(r) == response[r].status \in {"200", "shown"}
Answered(r) == response[r] # NoResponse

\* C1: every successful answer of POST /analyze echoes, in "feedback", the
\* text of its own request character for character (the empty text and a
\* text with surrounding blanks included).
C1_FeedbackEchoesText ==
  \A r \in Requests :
    response[r].status = "200" =>
      body[r].hasText /\ response[r].feedback = body[r].text

C1_Witness ==
  \E r, q \in Requests :
    /\ response[r].status = "200" /\ body[r].text = <<>>
    /\ response[q].status = "200" /\ body[q].text = <<" ", "a", " ">>

\* C2 as stated: every request with a non-empty text is answered with one
\* of the two labels and a score in [0,1].
C2_Original ==
  \A r \in Requests :
    (frontend = "api" /\ pc[r] = "done" /\ body[r].hasText /\ body[r].text # <<>>) =>
      /\ response[r].status = "200"
      /\ response[r].sentiment \in Labels
      /\ response[r].score \in 0..ScoreDen

\* C2 amended: a request with a non-empty text whose inference call returns
\* is answered with exactly the label and the score of the call's first
\* result, the label one of the two fixed values and the score in [0,1];
\* when the call raises, the answer is a server error without label or score.
C2_LabelAndScoreOfFirstResult ==
  \A r \in Requests :
    (frontend = "api" /\ pc[r] = "done" /\ body[r].hasText /\ body[r].text # <<>>) =>
      /\ result[r].kind \in {"ok", "raise"}
      /\ result[r].kind = "ok" =>
           /\ response[r].status = "200"
           /\ response[r].sentiment = result[r].out[1].label
           /\ response[r].score = result[r].out[1].score
           /\ response[r].sentiment \in Labels
           /\ response[r].score \in 0..ScoreDen
      /\ result[r].kind = "raise" => response[r] = Response500

C2_Witness ==
  \E r \in Requests :
    /\ frontend = "api" /\ body[r].text # <<>>
    /\ response[r].status = "200" /\ response[r].sentiment = POSITIVE

\* C3: a malformed body and a body without "text" are answered 422 without
\* the handler running, the process stays up with its model, and requests
\* with a text are still answered by the handler afterwards.
C3_InvalidBodyRejected ==
  \A r \in Requests :
    (frontend = "api" /\ pc[r] = "done") =>
      IF body[r] \in {MalformedBody, MissingBody}
        THEN /\ response[r] = Response422
             /\ calls[r] = 0
             /\ phase = "serving" /\ classifier # 0
        ELSE /\ response[r].status \in {"200", "500"}
             /\ calls[r] = 1

C3_Witness ==
  \E r, q, w \in Requests :
    /\ r < w /\ q < w
    /\ body[r] = MalformedBody /\ response[r] = Response422
    /\ body[q] = MissingBody /\ response[q] = Response422
    /\ response[w].status = "200"

\* C4: two successfully answered requests of one process with the same text,
\* served by the same model instance, carry the same label and score (the
\* same two lines in the form), whatever else was handled.
C4_Idempotent ==
  \A r, q \in Requests :
    (Succeeded(r) /\ Succeeded(q) /\ body[r].text = body[q].text
       /\ usedModel[r] = usedModel[q]) =>
      /\ response[r].sentiment = response[q].sentiment
      /\ response[r].score = response[q].score
      /\ response[r].output = response[q].output

C4_Witness ==
  \E r, q, w \in Requests :
    /\ r < q /\ q < w
    /\ Succeeded(r) /\ Succeeded(q) /\ Succeeded(w)
    /\ body[r].text = body[w].text /\ body[q].text # body[r].text
    /\ result[q] # result[r]

\* position of a letter in the alphabet, whatever its case (0: no letter)
LetterIndex(c) ==
  IF Occurs(UpperCase, c) THEN IndexIn(UpperCase, c)
  ELSE IF Occurs(LowerCase, c) THEN IndexIn(LowerCase, c)
  ELSE 0
IsDigit(c) == Occurs(Digits, c)
DigitValue(c) == IndexIn(Digits, c) - 1

\* C5: for every label L and score s the form's string is "Sentiment: ",
\* then L with its first letter in upper case and the others in lower case,
\* a newline, "Confidence: ", and s as one integer digit, a point and
\* exactly four fraction digits, the written number being the multiple of
\* 0.0001 nearest to s; NEGATIVE with 0.9876 gives
\* "Sentiment: Negative\nConfidence: 0.9876".
C5_FormattedOutput ==
  fmtOut # <<>> =>
    LET n == Len(fmtLabel)
        at(i) == fmtOut[i]
        written == 10000 * DigitValue(at(25 + n)) + 1000 * DigitValue(at(27 + n))
                   + 100 * DigitValue(at(28 + n)) + 10 * DigitValue(at(29 + n))
                   + DigitValue(at(30 + n))
    IN  /\ Len(fmtOut) = 30 + n
        /\ SubSeq(fmtOut, 1, 11) = <<"S", "e", "n", "t", "i", "m", "e", "n", "t", ":", " ">>
        /\ Occurs(UpperCase, at(12)) /\ LetterIndex(at(12)) = LetterIndex(fmtLabel[1])
        /\ \A i \in 2..n :
             Occurs(LowerCase, at(11 + i)) /\ LetterIndex(at(11 + i)) = LetterIndex(fmtLabel[i])
        /\ at(12 + n) = "\n"
        /\ SubSeq(fmtOut, 13 + n, 24 + n) =
             <<"C", "o", "n", "f", "i", "d", "e", "n", "c", "e", ":", " ">>
        /\ at(26 + n) = "."
        /\ \A i \in {25, 27, 28, 29, 30} : IsDigit(at(i + n))
        /\ 100 * written - fmtScore \in -50..50
        /\ (fmtLabel = NEGATIVE /\ fmtScore = 987600) =>
             fmtOut = <<"S", "e", "n", "t", "i", "m", "e", "n", "t", ":", " ",
                        "N", "e", "g", "a", "t", "i", "v", "e", "\n",
                        "C", "o", "n", "f", "i", "d", "e", "n", "c", "e", ":", " ",
                        "0", ".", "9", "8", "7", "6">>

C5_Witness == fmtOut # <<>> /\ fmtLabel = NEGATIVE /\ fmtScore = 987600

\* C6: pipeline(...) is called once, while the module body runs; the name
\* classifier is bound to that one instance from then on, and every
\* inference call of every request goes to it.
C6_SingleModelInstance ==
  /\ loads <= 1
  /\ phase = "loading" => (loads = 0 /\ classifier = 0)
  /\ phase = "serving" => (loads = 1 /\ classifier = 1)
  /\ \A r \in Requests : calls[r] > 0 => (usedModel[r] = 1 /\ classifier = 1)

C6_Witness ==
  /\ loads = 1
  /\ \A r \in Requests : pc[r] = "done" /\ calls[r] = 1 /\ usedModel[r] = classifier

\* handled or answered requests exist only in a serving process with a model
C7_StateOk ==
  /\ \A r \in Requests :
       (pc[r] \in {"infer", "done"} \/ Answered(r)) =>
         (phase = "serving" /\ classifier # 0 /\ loads = 1)
  /\ phase = "failed" => classifier = 0
  /\ phase = "serving" => classifier # 0

\* C7: a request is handled or answered only by a process whose model load
\* succeeded; once the load has failed the process stays failed, holds no
\* model and answers nothing.
C7_NoServingWithoutModel ==
  /\ []C7_StateOk
  /\ [][phase = "failed" => phase' = "failed"]_vars

C7_Witness ==
  /\ phase = "failed"
  /\ nextId > MaxReq
  /\ \A r \in Requests : pc[r] = "sent" /\ ~Answered(r)

\* C8: a handler calls the pipeline once; when the call raises there is no
\* second call and the answer is the framework's error, without label,
\* score or formatted text.
C8_FailurePropagates ==
  \A r \in Requests :
    /\ calls[r] <= 1
    /\ (pc[r] \in {"infer", "done"} /\ FeedbackValid(body[r])) => calls[r] = 1
    /\ result[r] = Raised =>
         /\ pc[r] = "done" /\ calls[r] = 1
         /\ response[r] = (IF frontend = "api" THEN Response500 ELSE FormError)
         /\ response[r].sentiment = <<>> /\ response[r].score = -1
         /\ response[r].output = <<>>

C8_Witness ==
  \E r, q \in Requests :
    /\ r < q
    /\ result[r] = Raised /\ pc[r] = "done"
    /\ Succeeded(q)

\* a successful answer is the loaded model's answer for the request's own text
C9_OwnAnswer ==
  \A r \in Requests :
    Succeeded(r) =>
      /\ body[r].hasText
      /\ modelFn[body[r].text].kind = "ok"
      /\ result[r] = modelFn[body[r].text]
      /\ frontend = "api" =>
           /\ response[r].feedback = body[r].text
           /\ response[r].sentiment = modelFn[body[r].text].out[1].label
           /\ response[r].score = modelFn[body[r].text].out[1].score
      /\ frontend = "form" =>
           response[r].output = FormatResult(modelFn[body[r].text].out[1])

\* what a step of a serving process leaves alone
C9_HandlerStep ==
  phase = "serving" =>
    /\ phase' = phase /\ classifier' = classifier /\ loads' = loads
    /\ frontend' = frontend
    /\ \A q \in Requests :
         /\ Answered(q) => response'[q] = response[q]
         /\ body[q] # NoBody => body'[q] = body[q]
    /\ \A r, q \in Requests :
         (response'[r] # response[r] /\ response'[q] # response[q]) => r = q

\* C9: every successful answer is the one the loaded model gives for the
\* request's own text; handling a request changes nothing process-wide
\* (phase, model, load count), changes no other request's answer or body,
\* and an answer once given never changes.
C9_StatelessRequests == []C9_OwnAnswer /\ [][C9_HandlerStep]_vars

C9_Witness ==
  \E r, q \in Requests :
    /\ frontend = "form"
    /\ raced[r] /\ raced[q] /\ r # q
    /\ Succeeded(r) /\ Succeeded(q)
    /\ body[r].text # body[q].text
    /\ response[r].output # response[q].output

\* at most one call in progress, made by the coroutine holding the loop
C10_OneAtATime ==
  frontend = "api" =>
    /\ Cardinality(InFlight) <= 1
    /\ InFlight # {} => loopTask \in InFlight
    /\ \A r \in Requests : raced[r] = FALSE

\* while a call is in progress other requests can only arrive
C10_CallStep ==
  (frontend = "api" /\ InFlight # {}) =>
    \A q \in Requests \ InFlight :
      /\ pc'[q] = pc[q] \/ (pc[q] = "none" /\ pc'[q] = "sent")
      /\ response'[q] = response[q]

\* C10: in the HTTP front-end at most one inference call is in progress, its
\* handler holds the event loop, and until it returns no other request is
\* rejected, started or answered: the only other thing that happens is that
\* requests arrive.
C10_HandlerRunsToCompletion == []C10_OneAtATime /\ [][C10_CallStep]_vars

C10_Witness ==
  \E r, q \in Requests :
    /\ frontend = "api"
    /\ InFlight = {r} /\ loopTask = r
    /\ r < q /\ pc[q] = "sent" /\ FeedbackValid(body[q])

====
